---- MODULE Spec2Model ----
(***************************************************************************)
(* bench-bot/src/report.rs: Metrics::from_str parses the text a wrk run    *)
(* prints into a Metrics record, Report::new labels it, and                *)
(* Report::generate_from renders a vector of reports as a markdown table.  *)
(*                                                                         *)
(* A Rust String is a sequence of one-character strings, so that matching, *)
(* slicing, joining and splitting are computed character by character.     *)
(***************************************************************************)
EXTENDS Integers, Sequences, FiniteSets, TLC

VARIABLES given, input, parsed, reports, table

vars == <<given, input, parsed, reports, table>>

(***************************************************************************)
(* Bounds of the model.                                                    *)
(***************************************************************************)
\* lines of a text, beyond those the locators look for
MaxNoise == 1
\* length of the vector handed to generate_from
MaxReports == 2

(***************************************************************************)
(* Strings.                                                                *)
(***************************************************************************)
Digit == {"0", "1", "2", "3", "4", "5", "6", "7", "8", "9"}

\* the characters the regex crate's \s matches, among those the texts use
Space == {" ", "\t", "\n", "\r"}

RECURSIVE Concat(_)
Concat(ss) == IF ss = <<>> THEN <<>> ELSE Head(ss) \o Concat(Tail(ss))

(***************************************************************************)
(* The regex crate, for the pattern shapes report.rs uses: literals, \s+,  *)
(* \d+ and capture groups that do not nest. A pattern is a sequence of     *)
(* elements: one character of a class, one or more characters of a class,  *)
(* or a group bracket.                                                     *)
(***************************************************************************)
One(cls) == [t |-> "one", cls |-> cls]
Plus(cls) == [t |-> "plus", cls |-> cls]
Open == [t |-> "open", cls |-> {}]
Close == [t |-> "close", cls |-> {}]

\* a literal string as a pattern
Lit(s) == [i \in 1..Len(s) |-> One({s[i]})]

\* \d+\.\d+ followed by a literal unit, as one capture group
Quantity(unit) == <<Open, Plus(Digit), One({"."}), Plus(Digit)>> \o Lit(unit) \o <<Close>>

NoMatch == [ok |-> FALSE, caps |-> <<>>]

\* the first index at or after i whose character is outside cls
RECURSIVE RunEnd(_, _, _)
RunEnd(s, i, cls) ==
  IF i <= Len(s) /\ s[i] \in cls THEN RunEnd(s, i + 1, cls) ELSE i

\* Match of re from its element p on, at index i of s. caps holds one
\* <<first, last>> per group opened so far. A repetition takes the whole run:
\* in every pattern of from_str the element after a + is a character outside
\* the repeated class (or the pattern ends), so no shorter run can match.
RECURSIVE MatchHere(_, _, _, _, _)
MatchHere(re, p, s, i, caps) ==
  IF p > Len(re) THEN [ok |-> TRUE, caps |-> caps]
  ELSE LET e == re[p] IN
    CASE e.t = "open" -> MatchHere(re, p + 1, s, i, Append(caps, <<i, i - 1>>))
      [] e.t = "close" ->
           MatchHere(re, p + 1, s, i,
                     [caps EXCEPT ![Len(caps)] = <<caps[Len(caps)][1], i - 1>>])
      [] e.t = "one" ->
           IF i <= Len(s) /\ s[i] \in e.cls
           THEN MatchHere(re, p + 1, s, i + 1, caps)
           ELSE NoMatch
      [] e.t = "plus" ->
           LET j == RunEnd(s, i, e.cls) IN
           IF j > i THEN MatchHere(re, p + 1, s, j, caps) ELSE NoMatch

\* Regex::captures: the match that starts leftmost
captures(re, s) ==
  LET starts == {i \in 1..(Len(s) + 1) : MatchHere(re, 1, s, i, <<>>).ok} IN
  IF starts = {} THEN NoMatch
  ELSE MatchHere(re, 1, s, CHOOSE i \in starts : \A j \in starts : i <= j, <<>>)

\* captures(input).and_then(|cap| cap.get(k)).map(|m| m.as_str().to_string())
CaptureGroup(re, s, k) ==
  LET m == captures(re, s) IN
  IF m.ok /\ k <= Len(m.caps)
  THEN [some |-> TRUE, v |-> SubSeq(s, m.caps[k][1], m.caps[k][2])]
  ELSE [some |-> FALSE, v |-> <<>>]

\* unwrap_or("0.0".to_string()) in its place
unwrap_or_zero(o) == IF o.some THEN o.v ELSE <<"0",".","0">>

\* Option<String>::unwrap_or_default
unwrap_or_default(o) == IF o.some THEN o.v ELSE <<>>

(***************************************************************************)
(* The five patterns of from_str.                                          *)
(***************************************************************************)
\* the groups closed before the unit: Latency\s+(\d+\.\d+)us\s+(\d+\.\d+)us\s+(\d+\.\d+)ms
latency_regex_without_unit ==
  LET Number == <<Open, Plus(Digit), One({"."}), Plus(Digit), Close>> IN
  Lit(<<"L","a","t","e","n","c","y">>) \o <<Plus(Space)>> \o Number \o Lit(<<"u","s">>) \o <<Plus(Space)>>
    \o Number \o Lit(<<"u","s">>) \o <<Plus(Space)>> \o Number \o Lit(<<"m","s">>)

latency_regex ==
  Lit(<<"L","a","t","e","n","c","y">>) \o <<Plus(Space)>> \o Quantity(<<"u","s">>) \o <<Plus(Space)>>
    \o Quantity(<<"u","s">>) \o <<Plus(Space)>> \o Quantity(<<"m","s">>)

total_requests_regex == <<Open, Plus(Digit), Close>> \o Lit(<<" ","r","e","q","u","e","s","t","s"," ","i","n">>)

total_data_read_regex == Lit(<<","," ">>) \o Quantity(<<"G","B">>) \o Lit(<<" ","r","e","a","d">>)

\* the marker cut down to its tail, in either case: /[sS]ec[: ]+(\d+\.\d+)
req_per_sec_regex_loose ==
  <<One({"/"}), One({"s", "S"})>> \o Lit(<<"e","c">>) \o <<Plus({":", " "})>>
    \o <<Open, Plus(Digit), One({"."}), Plus(Digit), Close>>

req_per_sec_regex ==
  Lit(<<"R","e","q","u","e","s","t","s","/","s","e","c",":"," ">>) \o <<Open, Plus(Digit), One({"."}), Plus(Digit), Close>>

transfer_per_sec_regex ==
  Lit(<<"T","r","a","n","s","f","e","r","/","s","e","c",":">>) \o <<Plus(Space)>> \o Quantity(<<"M","B">>)

(***************************************************************************)
(* impl FromStr for Metrics. The result is Ok(metrics) or                  *)
(* Err(MetricsError::ParseError); metrics of an Err is never read.         *)
(***************************************************************************)
EmptyMetrics ==
  [latency |-> [avg |-> <<>>, std_env |-> <<>>, max |-> <<>>],
   request |-> [total |-> <<>>, req_per_sec |-> <<>>],
   transfer |-> [total |-> <<>>, rate |-> <<>>]]

Ok(m) == [ok |-> TRUE, metrics |-> m]
Err == [ok |-> FALSE, metrics |-> EmptyMetrics]

\* every capture required: .ok_or(MetricsError::ParseError)? on each
from_str_strict(text) ==
  LET located(re) == captures(re, text).ok IN
  IF /\ located(latency_regex) /\ located(total_requests_regex)
     /\ located(req_per_sec_regex) /\ located(total_data_read_regex)
     /\ located(transfer_per_sec_regex)
  THEN Ok([latency |-> [avg |-> CaptureGroup(latency_regex, text, 1).v,
                        std_env |-> CaptureGroup(latency_regex, text, 2).v,
                        max |-> CaptureGroup(latency_regex, text, 3).v],
           request |-> [total |-> CaptureGroup(total_requests_regex, text, 1).v,
                        req_per_sec |-> CaptureGroup(req_per_sec_regex, text, 1).v],
           transfer |-> [total |-> CaptureGroup(total_data_read_regex, text, 1).v,
                         rate |-> CaptureGroup(transfer_per_sec_regex, text, 1).v]])
  ELSE Err

from_str(text) ==
  LET avg_latency == CaptureGroup(latency_regex, text, 1)
      stddev_latency == CaptureGroup(latency_regex, text, 2)
      max_latency == CaptureGroup(latency_regex, text, 3)
      total_requests == CaptureGroup(total_requests_regex, text, 1)
      req_per_sec == CaptureGroup(req_per_sec_regex, text, 1)
      total_data_read == CaptureGroup(total_data_read_regex, text, 1)
      transfer_per_sec == CaptureGroup(transfer_per_sec_regex, text, 1)
  IN Ok([latency |-> [avg |-> unwrap_or_default(avg_latency),
                      std_env |-> unwrap_or_default(stddev_latency),
                      max |-> unwrap_or_default(max_latency)],
         request |-> [total |-> unwrap_or_default(total_requests),
                      req_per_sec |-> unwrap_or_default(req_per_sec)],
         transfer |-> [total |-> unwrap_or_default(total_data_read),
                       rate |-> unwrap_or_default(transfer_per_sec)]])

(***************************************************************************)
(* The texts handed to from_str: the output of a wrk run as in the tests   *)
(* of report.rs, each line present or not, each quantity with one of the   *)
(* units wrk prints. `given` records how the text was put together.        *)
(***************************************************************************)
TimeUnit == {<<"u","s">>, <<"m","s">>, <<"s">>}
SizeUnit == {<<"B">>, <<"K","B">>, <<"M","B">>, <<"G","B">>}

AvgMagnitude == <<"8","1","4",".","2","7">>
StdevMagnitude == <<"4","9","8",".","4","7">>
MaxMagnitude == <<"8",".","4","2">>
TotalRequests == <<"1","7","2","7","5","9","6","6">>
ReqPerSec == <<"5","7","4","1","8","4",".","0","9">>
DataMagnitude == <<"1",".","9","5">>
RateMagnitude == <<"6","6",".","2","6">>

\* lat: <<>> (no Latency line) or the units of avg, stdev and max
LatencyLine(lat) ==
  IF lat = <<>> THEN <<>>
  ELSE Concat(<<<<" "," "," "," ","L","a","t","e","n","c","y"," "," "," ">>, AvgMagnitude, lat[1], <<" "," ">>, StdevMagnitude, lat[2],
                <<" "," "," ">>, MaxMagnitude, lat[3], <<" "," "," ","6","9",".","2","3","%","\n">>>>)

\* summary: <<>> (no summary line) or the unit of the data read
SummaryLine(summary) ==
  IF summary = <<>> THEN <<>>
  ELSE Concat(<<<<" "," ">>, TotalRequests, <<" ","r","e","q","u","e","s","t","s"," ","i","n"," ","3","0",".","0","9","s",","," ">>, DataMagnitude, summary,
                <<" ","r","e","a","d","\n">>>>)

RequestsLine(rps) ==
  IF rps THEN <<"R","e","q","u","e","s","t","s","/","s","e","c",":"," ">> \o ReqPerSec \o <<"\n">> ELSE <<>>

\* rate: <<>> (no Transfer/sec line) or the unit of the rate
TransferLine(rate) ==
  IF rate = <<>> THEN <<>>
  ELSE Concat(<<<<"T","r","a","n","s","f","e","r","/","s","e","c",":"," "," "," "," "," ">>, RateMagnitude, rate, <<"\n">>>>)

\* wrk --latency prints the percentile block after the Thread Stats
DistributionBlock(dist) ==
  IF dist
  THEN <<" "," ","L","a","t","e","n","c","y"," ","D","i","s","t","r","i","b","u","t","i","o","n","\n"," "," "," "," "," ","5","0","%"," "," ","7","0","7",".","0","0","u","s","\n"," "," "," "," "," ","7","5","%"," "," "," "," ","1",".","0","7","m","s","\n"," "," "," "," "," ","9","0","%"," "," "," "," ","1",".","5","0","m","s","\n"," "," "," "," "," ","9","9","%"," "," "," "," ","2",".","5","6","m","s","\n">>
  ELSE <<>>

\* lines that hold none of the markers: "    Req/Sec    36.10k ...",
\* "Running 30s test @ ...", "  Thread Stats ..." before the Latency line,
\* "691 Errors: ...", "  Socket errors: ..." after the Transfer/sec line
LeadNoise ==
  <<<<" "," "," "," ","R","e","q","/","S","e","c"," "," "," "," ","3","6",".","1","0","k"," "," "," "," "," ","2",".","6","4","k"," "," "," ","7","4",".","8","3","k"," "," "," "," ","7","5",".","4","1","%","\n">>,
    <<"R","u","n","n","i","n","g"," ","3","0","s"," ","t","e","s","t"," ","@"," ","h","t","t","p",":","/","/","1","2","7",".","0",".","0",".","1",":","3","0","0","0","\n">>,
    <<" "," ","T","h","r","e","a","d"," ","S","t","a","t","s"," "," "," ","A","v","g"," "," "," "," "," "," ","S","t","d","e","v"," "," "," "," "," ","M","a","x"," "," "," ","+","/","-"," ","S","t","d","e","v","\n">>>>

TrailNoise ==
  <<<<"\n","6","9","1"," ","E","r","r","o","r","s",":"," ","e","r","r","o","r"," ","s","h","u","t","t","i","n","g"," ","d","o","w","n"," ","c","o","n","n","e","c","t","i","o","n",":"," ","S","o","c","k","e","t"," ","i","s"," ","n","o","t"," ","c","o","n","n","e","c","t","e","d"," ","(","o","s"," ","e","r","r","o","r"," ","5","7",")","\n">>,
    <<" "," ","S","o","c","k","e","t"," ","e","r","r","o","r","s",":"," ","c","o","n","n","e","c","t"," ","0",","," ","r","e","a","d"," ","1","2",","," ","w","r","i","t","e"," ","0",","," ","t","i","m","e","o","u","t"," ","3","\n">>>>

RECURSIVE NoiseLines(_, _)
NoiseLines(lines, n) ==
  IF n = 0 THEN <<>>
  ELSE NoiseLines(lines, n - 1) \o lines[((n - 1) % Len(lines)) + 1]

WrkText(g) ==
  Concat(<<NoiseLines(LeadNoise, g.lead), LatencyLine(g.lat), DistributionBlock(g.dist),
           SummaryLine(g.summary), RequestsLine(g.rps), TransferLine(g.rate),
           NoiseLines(TrailNoise, g.trail)>>)

Shape ==
  [lat : {<<>>} \cup (TimeUnit \X TimeUnit \X TimeUnit),
   dist : BOOLEAN,
   summary : {<<>>} \cup SizeUnit,
   rps : BOOLEAN,
   rate : {<<>>} \cup SizeUnit,
   lead : 0..MaxNoise,
   trail : 0..MaxNoise]

NoiseCount(g) == g.lead + g.trail + (IF g.dist THEN 1 ELSE 0)

Given == {g \in Shape : NoiseCount(g) <= MaxNoise}

NoText == [lat |-> <<>>, dist |-> FALSE, summary |-> <<>>, rps |-> FALSE, rate |-> <<>>,
           lead |-> 0, trail |-> 0]

(***************************************************************************)
(* Parsing alone: any text of Given, parsed once.                          *)
(***************************************************************************)
ParseInit ==
  /\ given \in Given
  /\ input = WrkText(given)
  /\ parsed = <<>>
  /\ reports = <<>>
  /\ table = <<>>

\* given.parse::<Metrics>()
ParseInput ==
  /\ parsed = <<>>
  /\ parsed' = <<from_str(input)>>
  /\ UNCHANGED <<given, input, reports, table>>

ParseNext == ParseInput

ParseSpec == ParseInit /\ [][ParseNext]_vars

(***************************************************************************)
(* Report.                                                                 *)
(***************************************************************************)
\* "| Framework Name | Latency.Avg | Latency.Stdev | Latency.Max | Request.Total
\*  | Request.Req/Sec | Transfer.Total | Transfer.Rate | Max. Memory Usage |"
REPORT_HEADER ==
  <<"|"," ","F","r","a","m","e","w","o","r","k"," ","N","a","m","e"," ","|"," ","L","a","t","e","n","c","y",".","A","v","g"," ","|"," ","L","a","t","e","n","c","y",".","S","t","d","e","v"," ","|"," ","L","a","t","e","n","c","y",".","M","a","x"," ","|"," ","R","e","q","u","e","s","t",".","T","o","t","a","l"," ","|"," ","R","e","q","u","e","s","t",".","R","e","q","/","S","e","c"," ","|"," ","T","r","a","n","s","f","e","r",".","T","o","t","a","l"," ","|"," ","T","r","a","n","s","f","e","r",".","R","a","t","e"," ","|"," ","M","a","x","."," ","M","e","m","o","r","y"," ","U","s","a","g","e"," ","|">>

\* "\n|---|---|---|---|---|---|---|---|---|---|\n"
TABLE_SEPARATOR == <<"\n","|","-","-","-","|","-","-","-","|","-","-","-","|","-","-","-","|","-","-","-","|","-","-","-","|","-","-","-","|","-","-","-","|","-","-","-","|","-","-","-","|","\n">>

DigitChar(d) ==
  CASE d = 0 -> "0" [] d = 1 -> "1" [] d = 2 -> "2" [] d = 3 -> "3" [] d = 4 -> "4"
    [] d = 5 -> "5" [] d = 6 -> "6" [] d = 7 -> "7" [] d = 8 -> "8" [] d = 9 -> "9"

RECURSIVE NatToString(_)
NatToString(n) ==
  IF n < 10 THEN <<DigitChar(n)>> ELSE Append(NatToString(n \div 10), DigitChar(n % 10))

\* format!("{:.1}MB", max_memory), for a max_memory given in tenths of a MB
FormatMemory(tenths) ==
  NatToString(tenths \div 10) \o <<".">> \o NatToString(tenths % 10) \o <<"M","B">>

\* Report::new
Report_new(framework_name, max_memory, metrics) ==
  [framework_name |-> framework_name,
   metrics |-> metrics,
   max_memory |-> FormatMemory(max_memory)]

\* "-" put where a latency string is empty
FormatRow_with_placeholder(r) ==
  LET cell(v) == IF v = <<>> THEN <<"-">> ELSE v IN
  Concat(<<<<"|">>, r.framework_name,
           <<"|">>, cell(r.metrics.latency.avg),
           <<"|">>, cell(r.metrics.latency.std_env),
           <<"|">>, cell(r.metrics.latency.max),
           <<"|">>, r.metrics.request.total,
           <<"|">>, r.metrics.request.req_per_sec,
           <<"|">>, r.metrics.transfer.total,
           <<"|">>, r.metrics.transfer.rate,
           <<"|">>, r.max_memory, <<"|">>>>)

\* max and std_env given to format! in each other's place
FormatRow_swapped(r) ==
  Concat(<<<<"|">>, r.framework_name,
           <<"|">>, r.metrics.latency.avg,
           <<"|">>, r.metrics.latency.max,
           <<"|">>, r.metrics.latency.std_env,
           <<"|">>, r.metrics.request.total,
           <<"|">>, r.metrics.request.req_per_sec,
           <<"|">>, r.metrics.transfer.total,
           <<"|">>, r.metrics.transfer.rate,
           <<"|">>, r.max_memory, <<"|">>>>)

\* format!("|{}|{}|{}|{}|{}|{}|{}|{}|{}|", ...) of one report
FormatRow(r) ==
  Concat(<<<<"|">>, r.framework_name,
           <<"|">>, r.metrics.latency.avg,
           <<"|">>, r.metrics.latency.std_env,
           <<"|">>, r.metrics.latency.max,
           <<"|">>, r.metrics.request.total,
           <<"|">>, r.metrics.request.req_per_sec,
           <<"|">>, r.metrics.transfer.total,
           <<"|">>, r.metrics.transfer.rate,
           <<"|">>, r.max_memory, <<"|">>>>)

\* the rows pushed from the last report to the first
RECURSIVE PushRows_reversed(_, _)
PushRows_reversed(res, rs) ==
  IF rs = <<>> THEN res
  ELSE PushRows_reversed(res \o FormatRow(rs[Len(rs)]) \o <<"\n">>, SubSeq(rs, 1, Len(rs) - 1))

\* the loop of generate_from: each row pushed with a '\n' after it
RECURSIVE PushRows(_, _)
PushRows(res, rs) ==
  IF rs = <<>> THEN res
  ELSE PushRows(res \o FormatRow(Head(rs)) \o <<"\n">>, Tail(rs))

\* String::pop: the last character removed, if there is one
Pop(s) == IF s = <<>> THEN s ELSE SubSeq(s, 1, Len(s) - 1)

\* Report::generate_from
generate_from(rs) == Pop(PushRows(REPORT_HEADER \o TABLE_SEPARATOR, rs))

(***************************************************************************)
(* The caller: texts are parsed, each Metrics is wrapped into a Report,    *)
(* and the vector of reports is rendered once.                             *)
(***************************************************************************)
Full == [lat |-> <<<<"u","s">>, <<"u","s">>, <<"m","s">>>>, dist |-> FALSE, summary |-> <<"G","B">>,
         rps |-> TRUE, rate |-> <<"M","B">>, lead |-> 0, trail |-> 0]

\* the texts the caller parses: the one of the tests, the same with the
\* percentile block of wrk --latency, one in other units, and the empty text
Samples ==
  {Full,
   [Full EXCEPT !.dist = TRUE],
   [Full EXCEPT !.lat = <<<<"m","s">>, <<"m","s">>, <<"s">>>>, !.summary = <<"M","B">>, !.rate = <<"G","B">>],
   NoText}

FrameworkNames == {<<"a","c","t","i","x","-","w","e","b">>, <<"a","x","u","m">>}

\* max memory, in tenths of a MB
MemoryFigures == {137, 124}

Init ==
  /\ given = NoText
  /\ input = <<>>
  /\ parsed = <<>>
  /\ reports = <<>>
  /\ table = <<>>

\* text.parse::<Metrics>(), the text being one the caller has just captured
Parse(g) ==
  /\ table = <<>>
  /\ parsed = <<>>
  /\ Len(reports) < MaxReports
  /\ given' = g
  /\ input' = WrkText(g)
  /\ parsed' = <<from_str(WrkText(g))>>
  /\ UNCHANGED <<reports, table>>

\* reports.push(Report::new(name, memory, text.parse().expect(..))): the
\* Metrics moves into the Report and the text, a temporary, is dropped
NewReport(name, memory) ==
  /\ table = <<>>
  /\ parsed # <<>>
  /\ parsed[1].ok
  /\ Len(reports) < MaxReports
  /\ reports' = Append(reports, Report_new(name, memory, parsed[1].metrics))
  /\ parsed' = <<>>
  /\ given' = NoText
  /\ input' = <<>>
  /\ UNCHANGED table

\* Report::generate_from(&reports)
Generate ==
  /\ table = <<>>
  /\ parsed = <<>>
  /\ table' = generate_from(reports)
  /\ UNCHANGED <<given, input, parsed, reports>>

Next ==
  \/ \E g \in Samples : Parse(g)
  \/ \E name \in FrameworkNames, memory \in MemoryFigures : NewReport(name, memory)
  \/ Generate

Spec == Init /\ [][Next]_vars

(***************************************************************************)
(* What a text of Given holds, read off the way it was put together.       *)
(***************************************************************************)
\* the Latency line has the units the latency pattern spells out
LatencyLocated(g) == g.lat = <<<<"u","s">>, <<"u","s">>, <<"m","s">>>>
\* the summary line states the data read in the unit its pattern spells out
DataLocated(g) == g.summary = <<"G","B">>
\* the Transfer/sec line states the rate in the unit its pattern spells out
RateLocated(g) == g.rate = <<"M","B">>

AllLocated(g) == LatencyLocated(g) /\ DataLocated(g) /\ g.rps /\ RateLocated(g)

\* the Metrics whose fields are the tokens of the text, character for
\* character, where the field's pattern matches, and empty where it does not
Expected(g) ==
  [latency |->
     [avg |-> IF LatencyLocated(g) THEN AvgMagnitude \o g.lat[1] ELSE <<>>,
      std_env |-> IF LatencyLocated(g) THEN StdevMagnitude \o g.lat[2] ELSE <<>>,
      max |-> IF LatencyLocated(g) THEN MaxMagnitude \o g.lat[3] ELSE <<>>],
   request |->
     [total |-> IF g.summary # <<>> THEN TotalRequests ELSE <<>>,
      req_per_sec |-> IF g.rps THEN ReqPerSec ELSE <<>>],
   transfer |->
     [total |-> IF DataLocated(g) THEN DataMagnitude \o g.summary ELSE <<>>,
      rate |-> IF RateLocated(g) THEN RateMagnitude \o g.rate ELSE <<>>]]

Parsed == parsed # <<>>
Metrics == parsed[1].metrics

(***************************************************************************)
(* Numbers, for the statements about milliseconds. A value is held as an   *)
(* integer number of 1/10000 ms, the scale the rounding is fixed at.       *)
(***************************************************************************)
DigitValue(c) == CHOOSE d \in 0..9 : DigitChar(d) = c

RECURSIVE ToNat(_)
ToNat(ds) ==
  IF ds = <<>> THEN 0 ELSE 10 * ToNat(SubSeq(ds, 1, Len(ds) - 1)) + DigitValue(ds[Len(ds)])

RECURSIVE Pow10(_)
Pow10(n) == IF n = 0 THEN 1 ELSE 10 * Pow10(n - 1)

\* the leading number of a string, and what follows it
NumberOf(s) == SubSeq(s, 1, RunEnd(s, 1, Digit \cup {"."}) - 1)
UnitOf(s) == SubSeq(s, RunEnd(s, 1, Digit \cup {"."}), Len(s))

\* a decimal with at most four places, as a number of 1/10000
Scaled(num) ==
  LET dot == RunEnd(num, 1, Digit)
      whole == SubSeq(num, 1, dot - 1)
      frac == SubSeq(num, dot + 1, Len(num))
  IN ToNat(whole) * 10000 + ToNat(frac) * Pow10(4 - Len(frac))

IsNumber(s) ==
  /\ s # <<>>
  /\ \A i \in 1..Len(s) : s[i] \in Digit \cup {"."}
  /\ Cardinality({i \in 1..Len(s) : s[i] = "."}) <= 1

\* a quantity in milliseconds, rounded half away from zero at 1/10000
Millis(num, unit) ==
  CASE unit = <<"u","s">> -> (Scaled(num) + 500) \div 1000
    [] unit = <<"m","s">> -> Scaled(num)
    [] unit = <<"s">> -> Scaled(num) * 1000
    [] OTHER -> 0

LatencyFields == {"avg", "std_env", "max"}

(***************************************************************************)
(* C1. from_str returns Ok for every text: whichever locators match or     *)
(* fail to match, the result is never Err(MetricsError::ParseError).       *)
(***************************************************************************)
C1_AlwaysOk == Parsed => parsed[1].ok

C1_Witness ==
  /\ Parsed
  /\ parsed[1].ok
  /\ ~LatencyLocated(given) /\ given.lat # <<>>
  /\ given.summary = <<>> /\ ~given.rps /\ ~RateLocated(given)

(***************************************************************************)
(* C4, as claimed. Every latency field that the locator matched holds the  *)
(* token's value in milliseconds: a token in us divided by 1000, one in s  *)
(* multiplied by 1000, one in ms passed through.                           *)
(***************************************************************************)
C4_Original ==
  Parsed =>
    \A f \in LatencyFields :
      LET stored == Metrics.latency[f]
          token == Expected(given).latency[f]
      IN stored # <<>> =>
           /\ IsNumber(NumberOf(stored))
           /\ Scaled(NumberOf(stored)) = Millis(NumberOf(token), UnitOf(token))

(***************************************************************************)
(* C4, amended. Every latency field that the locator matched holds the     *)
(* token of the text as it stands, unit suffix included: avg and stdev the *)
(* token in us, max the token in ms, none converted to milliseconds.       *)
(***************************************************************************)
C4_LatencyVerbatim ==
  Parsed /\ LatencyLocated(given) =>
    /\ Metrics.latency.avg = AvgMagnitude \o <<"u","s">>
    /\ Metrics.latency.std_env = StdevMagnitude \o <<"u","s">>
    /\ Metrics.latency.max = MaxMagnitude \o <<"m","s">>
    /\ UnitOf(Metrics.latency.avg) = given.lat[1]
    /\ UnitOf(Metrics.latency.std_env) = given.lat[2]
    /\ UnitOf(Metrics.latency.max) = given.lat[3]

C4_Witness ==
  /\ Parsed
  /\ LatencyLocated(given)
  /\ Metrics.latency.avg = <<"8","1","4",".","2","7","u","s">>
  /\ Metrics.latency.max = <<"8",".","4","2","m","s">>

(***************************************************************************)
(* C5, as claimed. Parsing the empty string gives Ok with every latency    *)
(* field the number 0.0 and every string field empty.                      *)
(***************************************************************************)
C5_Original ==
  Parsed /\ input = <<>> =>
    /\ parsed[1].ok
    /\ \A f \in LatencyFields :
         IsNumber(Metrics.latency[f]) /\ Scaled(Metrics.latency[f]) = 0
    /\ Metrics.request = [total |-> <<>>, req_per_sec |-> <<>>]
    /\ Metrics.transfer = [total |-> <<>>, rate |-> <<>>]

(***************************************************************************)
(* C5, amended. Parsing the empty string gives Ok with every field, the    *)
(* latency fields included, the empty string; and for every text, a field  *)
(* whose locator finds no match is the empty string while a field whose    *)
(* locator matches holds the matched token.                                *)
(***************************************************************************)
C5_Defaults ==
  Parsed =>
    /\ parsed[1].ok
    /\ input = <<>> => Metrics = EmptyMetrics
    /\ Metrics = Expected(given)

C5_Witness ==
  /\ Parsed
  /\ input = <<>>
  /\ Metrics.latency = [avg |-> <<>>, std_env |-> <<>>, max |-> <<>>]

\* a text in which some locators match and others do not
C5_WitnessPartial ==
  /\ Parsed
  /\ given.rps /\ Metrics.request.req_per_sec = ReqPerSec
  /\ given.rate = <<"K","B">> /\ Metrics.transfer.rate = <<>>

(***************************************************************************)
(* C6. When every locator matches, request total, req_per_sec, transfer    *)
(* total and transfer rate are the matched substrings character for        *)
(* character, and lines that hold none of the markers, before or after,    *)
(* change nothing of the result.                                           *)
(***************************************************************************)
C6_VerbatimDespiteNoise ==
  Parsed /\ AllLocated(given) =>
    /\ Metrics.request.total = <<"1","7","2","7","5","9","6","6">>
    /\ Metrics.request.req_per_sec = <<"5","7","4","1","8","4",".","0","9">>
    /\ Metrics.transfer.total = <<"1",".","9","5","G","B">>
    /\ Metrics.transfer.rate = <<"6","6",".","2","6","M","B">>
    /\ parsed[1] = from_str(WrkText([given EXCEPT !.lead = 0, !.trail = 0, !.dist = FALSE]))

C6_Witness ==
  /\ Parsed
  /\ AllLocated(given)
  /\ given.trail > 0
  /\ Metrics.transfer.total = <<"1",".","9","5","G","B">>

(***************************************************************************)
(* C9, as claimed. The latency locator matches three tokens after          *)
(* "Latency" whatever unit of us, ms, s each of them carries: avg, stdev   *)
(* and max are extracted, not left at their defaults.                      *)
(***************************************************************************)
C9_AnyTimeUnit ==
  Parsed /\ given.lat # <<>> =>
    /\ Metrics.latency.avg = AvgMagnitude \o given.lat[1]
    /\ Metrics.latency.std_env = StdevMagnitude \o given.lat[2]
    /\ Metrics.latency.max = MaxMagnitude \o given.lat[3]

(***************************************************************************)
(* C10, as claimed. The transfer total and the transfer rate are extracted *)
(* whatever byte-size suffix the token carries: B, KB, MB or GB.           *)
(***************************************************************************)
C10_AnySizeUnit ==
  Parsed =>
    /\ given.summary # <<>> => Metrics.transfer.total = DataMagnitude \o given.summary
    /\ given.rate # <<>> => Metrics.transfer.rate = RateMagnitude \o given.rate

(***************************************************************************)
(* Reading a rendered table: its lines, and the cells of a line.           *)
(***************************************************************************)
\* s cut at every occurrence of the character c
Split(s, c) ==
  LET cuts == {i \in 1..Len(s) : s[i] = c}
      n == Cardinality(cuts)
      cut(k) == IF k = 0 THEN 0
                ELSE IF k = n + 1 THEN Len(s) + 1
                ELSE CHOOSE i \in cuts : Cardinality({j \in cuts : j < i}) = k - 1
  IN [k \in 1..(n + 1) |-> SubSeq(s, cut(k - 1) + 1, cut(k) - 1)]

RECURSIVE Join(_, _)
Join(ss, sep) ==
  IF ss = <<>> THEN <<>>
  ELSE IF Len(ss) = 1 THEN ss[1]
  ELSE ss[1] \o sep \o Join(Tail(ss), sep)

TableLines == Split(table, "\n")

\* the cells of a line that starts and ends with '|'
Cells(line) == LET parts == Split(line, "|") IN SubSeq(parts, 2, Len(parts) - 1)

Rendered == table # <<>>

\* the value a report holds for a column of the header
ColumnValue(r, column) ==
  CASE column = <<" ","F","r","a","m","e","w","o","r","k"," ","N","a","m","e"," ">> -> r.framework_name
    [] column = <<" ","L","a","t","e","n","c","y",".","A","v","g"," ">> -> r.metrics.latency.avg
    [] column = <<" ","L","a","t","e","n","c","y",".","S","t","d","e","v"," ">> -> r.metrics.latency.std_env
    [] column = <<" ","L","a","t","e","n","c","y",".","M","a","x"," ">> -> r.metrics.latency.max
    [] column = <<" ","R","e","q","u","e","s","t",".","T","o","t","a","l"," ">> -> r.metrics.request.total
    [] column = <<" ","R","e","q","u","e","s","t",".","R","e","q","/","S","e","c"," ">> -> r.metrics.request.req_per_sec
    [] column = <<" ","T","r","a","n","s","f","e","r",".","T","o","t","a","l"," ">> -> r.metrics.transfer.total
    [] column = <<" ","T","r","a","n","s","f","e","r",".","R","a","t","e"," ">> -> r.metrics.transfer.rate
    [] column = <<" ","M","a","x","."," ","M","e","m","o","r","y"," ","U","s","a","g","e"," ">> -> r.max_memory
    [] OTHER -> <<"?">>

(***************************************************************************)
(* C2, as claimed. A table rendered from N >= 1 reports has exactly N + 2  *)
(* lines, and the header, the separator and every data row have the same   *)
(* number of '|'-delimited cells.                                          *)
(***************************************************************************)
C2_RowColumnIntegrity ==
  Rendered /\ reports # <<>> =>
    /\ Len(TableLines) = Len(reports) + 2
    /\ \A k \in 1..Len(TableLines) :
         Len(Cells(TableLines[k])) = Len(Cells(TableLines[1]))

(***************************************************************************)
(* C3. The i-th data row of the table is the row of the i-th report: no    *)
(* row is dropped, duplicated or moved.                                    *)
(***************************************************************************)
C3_OrderPreserved ==
  Rendered =>
    /\ Len(TableLines) = Len(reports) + 2
    /\ \A i \in 1..Len(reports) :
         /\ TableLines[i + 2] = FormatRow(reports[i])
         /\ Cells(TableLines[i + 2])[1] = reports[i].framework_name

\* two reports that differ, rendered in the order given
C3_Witness ==
  /\ Rendered
  /\ Len(reports) = 2
  /\ reports[1].framework_name = <<"a","x","u","m">>
  /\ reports[2].framework_name = <<"a","c","t","i","x","-","w","e","b">>
  /\ Cells(TableLines[3])[1] = <<"a","x","u","m">>
  /\ Cells(TableLines[4])[1] = <<"a","c","t","i","x","-","w","e","b">>

(***************************************************************************)
(* C7. Every data row is the report's values in the order of the header's  *)
(* columns, joined with '|' and with '|' before and after, each value as   *)
(* stored (an empty string gives an empty cell); the rows are joined with  *)
(* one newline and nothing follows the last row.                           *)
(***************************************************************************)
C7_RowFormat ==
  Rendered =>
    LET columns == Cells(REPORT_HEADER)
        row(r) == <<"|">> \o Join([k \in 1..Len(columns) |-> ColumnValue(r, columns[k])], <<"|">>)
                    \o <<"|">>
    IN /\ table = Join(<<REPORT_HEADER, TableLines[2]>>
                         \o [i \in 1..Len(reports) |-> row(reports[i])], <<"\n">>)
       /\ table[Len(table)] = "|"

\* a report whose Metrics came from the empty text: its cells are empty
C7_Witness ==
  /\ Rendered
  /\ Len(reports) = 2
  /\ reports[1].metrics.request.total = <<"1","7","2","7","5","9","6","6">>
  /\ reports[2].metrics = EmptyMetrics
  /\ reports[2].max_memory = <<"1","2",".","4","M","B">>
  /\ TableLines[4] = <<"|","a","x","u","m","|","|","|","|","|","|","|","|","1","2",".","4","M","B","|">>

(***************************************************************************)
(* C8, as claimed. A report whose text had no "Latency Distribution"       *)
(* section is rendered with the cell "-" in each of the four percentile    *)
(* columns, which follow the Stdev column.                                 *)
(***************************************************************************)
C8_Original ==
  Rendered =>
    \A i \in 1..Len(reports) :
      LET cells == Cells(TableLines[i + 2]) IN
      /\ Len(cells) >= 7
      /\ \A k \in 4..7 : cells[k] = <<"-">>

(***************************************************************************)
(* C8, amended. Latency holds avg, stdev and max only and a data row has   *)
(* no percentile cell: its latency cells are the three stored strings as   *)
(* they are, empty when the locator found nothing, and the renderer puts   *)
(* the placeholder "-" in no cell.                                         *)
(***************************************************************************)
C8_NoPercentileCells ==
  Rendered =>
    \A i \in 1..Len(reports) :
      LET cells == Cells(TableLines[i + 2])
          latency == reports[i].metrics.latency
      IN /\ DOMAIN latency = LatencyFields
         /\ Len(cells) = 9
         /\ SubSeq(cells, 2, 4) = <<latency.avg, latency.std_env, latency.max>>
         /\ cells[5] = reports[i].metrics.request.total
         /\ \A k \in 1..Len(cells) : cells[k] # <<"-">>

\* a report parsed from a text with no percentile block and no Latency match
C8_Witness ==
  /\ Rendered
  /\ Len(reports) >= 1
  /\ reports[1].metrics.latency.avg = <<>>
  /\ reports[1].metrics.request.req_per_sec = ReqPerSec
  /\ SubSeq(Cells(TableLines[3]), 2, 4) = <<<<>>, <<>>, <<>>>>

====
